---- MODULE Spec2Model ----
(***************************************************************************)
(* Data-quality audit of daily price bars (xye43wisc/AI_Quant).            *)
(*                                                                         *)
(* The model covers the single-source rule engine (cleaner.py:             *)
(* get_data_for_cleaning, find_data_issues, clean_symbol, worker_clean),   *)
(* the cross-source reconciler (cross_validate_symbol,                     *)
(* worker_cross_validate), the watermark table (models.CleaningLog,        *)
(* storage.update_cleaning_log) and the orchestrators of main.py           *)
(* (run_clean, run_cross_validation).                                      *)
(*                                                                         *)
(* Prices are integers standing for the float columns of the bar tables;   *)
(* a percentage change is kept as the exact fraction num/den.  Dates are   *)
(* 1..MaxDate and NoDate stands for Python's None / SQL NULL.              *)
(***************************************************************************)
EXTENDS Integers, Sequences, FiniteSets, TLC

VARIABLES
    bars,           \* daily_bar_<source>: [source -> [symbol -> [dates -> bar]]]
    factors,        \* adj_factor_<source>: [source -> [symbol -> set of trade_date]]
    suspensions,    \* suspension_info: [symbol -> set of suspension_date]
    cleaning_log,   \* cleaning_log rows: [<<symbol, source>> -> last_cleaned_date]
    issue_log,      \* data_issue_log: committed rows, in insertion order
    market_calendar,  \* the trading dates ak.tool_trade_date_hist_sina() serves
    trade_date_cache, \* cleaner._trade_date_cache of each worker process
    args,           \* the command being run (main.py argparse namespace)
    pc,             \* position of the orchestrator (run_clean / run_cross_validation)
    tasks,          \* the futures: [symbol -> [state, result, proc]]
    collected,      \* futures already yielded by as_completed
    all_issues,     \* the orchestrator's buffer
    scans,          \* per symbol: what the last scan of it saw and tried (history)
    committed,      \* number of batches committed by the current run (history)
    probe           \* the last direct call of a pure function and its result

vars == <<bars, factors, suspensions, cleaning_log, issue_log, market_calendar,
          trade_date_cache, args, pc, tasks, collected, all_issues, scans, committed, probe>>

----------------------------------------------------------------------------
(* Bounds of the model *)

NumSymbols == 2
\* dates of the calendar; of the bars of the rule-engine calls; of the bars
\* stored before an orchestrator run
MaxDate == 3
MaxRuleDate == 2
MaxRunDate == 2
NumProcs == 2
\* main.py:25 sets ISSUE_BATCH_SIZE = 2000; the model runs the same code
\* with a threshold small enough for the buffer to reach it.
ISSUE_BATCH_SIZE == 2

NoDate == 0

Symbols == 1..NumSymbols
Dates == 1..MaxDate
Procs == 1..NumProcs
Sources == {"akshare", "baostock"}

Abs(x) == IF x < 0 THEN -x ELSE x
SetMin(S) == CHOOSE m \in S : \A x \in S : m <= x
SetMax(S) == CHOOSE m \in S : \A x \in S : m >= x

RECURSIVE SortedSeq(_)
SortedSeq(S) == IF S = {} THEN <<>>
                ELSE <<SetMin(S)>> \o SortedSeq(S \ {SetMin(S)})

FrameDates(df) == {df[i].trade_date : i \in 1..Len(df)}

----------------------------------------------------------------------------
(* models.py: the tables *)

Bar(o, h, l, c) == [open |-> o, high |-> h, low |-> l, close |-> c]

\* All the tables a series can be: one bar per (symbol, trade_date), the
\* primary key of daily_bar_<source>.
SeriesOver(barset, dates) == UNION {[D -> barset] : D \in SUBSET dates}

\* read_sql_query of a bar query ordered by trade_date ascending
\* restricted to the dates in keep
ReadBars(table, keep) ==
    LET ds == SortedSeq(keep \cap DOMAIN table)
    IN [i \in 1..Len(ds) |->
          [trade_date |-> ds[i], open |-> table[ds[i]].open,
           high |-> table[ds[i]].high, low |-> table[ds[i]].low,
           close |-> table[ds[i]].close]]

----------------------------------------------------------------------------
(* cleaner.py: single-source rule engine *)

get_data_for_cleaning(table, start_date) ==
    LET before == {d \in DOMAIN table : d < start_date}
        \* scalar subquery: latest trade_date strictly before start_date, or NULL
        previous_day_query == IF before = {} THEN NoDate ELSE SetMax(before)
        keep == IF start_date = NoDate THEN DOMAIN table
                \* trade_date >= NULL is never true
                ELSE IF previous_day_query = NoDate THEN {}
                ELSE {d \in DOMAIN table : d >= previous_day_query}
    IN ReadBars(table, keep)

get_adj_factors(factor_table) == SortedSeq(factor_table)

\* Series.pct_change().abs() of the close column: row i against row i-1;
\* NaN on the first row and for 0/0, infinite (den = 0 < num) for x/0.
pct_change(df) ==
    [i \in 1..Len(df) |->
        IF i = 1 THEN [nan |-> TRUE, num |-> 0, den |-> 0]
        ELSE IF df[i-1].close = 0 /\ df[i].close = 0
             THEN [nan |-> TRUE, num |-> 0, den |-> 0]
        ELSE [nan |-> FALSE,
              num |-> Abs(df[i].close - df[i-1].close),
              den |-> Abs(df[i-1].close)]]

\* pd.notna(p) and p > 0.30
ExceedsJump(p) == ~p.nan /\ 10 * p.num > 3 * p.den

PriceAnomalyMut(row) ==
    row.low <= 0 \/ row.high <= 0 \/ row.open <= 0 \/ row.low > row.high

PriceAnomaly(row) ==
    row.low <= 0 \/ row.high <= 0 \/ row.open <= 0 \/ row.close <= 0
        \/ row.low > row.high

RowIssuesMut(row, pct, factor_dates) ==
    (IF PriceAnomaly(row)
     THEN <<[trade_date |-> row.trade_date, issue |-> "price_anomaly",
             severity |-> "Error",
             details |-> <<row.open, row.high, row.low, row.close>>]>>
     ELSE <<>>)
    \o
    (IF ExceedsJump(pct)
     THEN <<[trade_date |-> row.trade_date, issue |-> "price_jump",
             severity |-> "Error",
             details |-> <<pct.num, pct.den>>]>>
     ELSE <<>>)

\* body of the loop over target_df.iterrows()
RowIssues(row, pct, factor_dates) ==
    (IF PriceAnomaly(row)
     THEN <<[trade_date |-> row.trade_date, issue |-> "price_anomaly",
             severity |-> "Error",
             details |-> <<row.open, row.high, row.low, row.close>>]>>
     ELSE <<>>)
    \o
    (IF ExceedsJump(pct)
     THEN IF row.trade_date \in factor_dates
          THEN <<[trade_date |-> row.trade_date, issue |-> "price_jump",
                  severity |-> "Warning",
                  details |-> <<pct.num, pct.den, "adj">>]>>
          ELSE <<[trade_date |-> row.trade_date, issue |-> "price_jump",
                  severity |-> "Error",
                  details |-> <<pct.num, pct.den>>]>>
     ELSE <<>>)

RECURSIVE ScanRows(_, _, _, _, _)
ScanRows(df, pcts, i, check_from_date, factor_dates) ==
    IF i > Len(df) THEN <<>>
    ELSE (IF check_from_date = NoDate \/ df[i].trade_date >= check_from_date
          THEN RowIssues(df[i], pcts[i], factor_dates)
          ELSE <<>>)
         \o ScanRows(df, pcts, i + 1, check_from_date, factor_dates)

find_data_issues(daily_df, factor_df, check_from_date) ==
    IF daily_df = <<>> THEN <<>>
    ELSE LET pcts == pct_change(daily_df)
             factor_dates == {factor_df[i] : i \in 1..Len(factor_df)}
         IN ScanRows(daily_df, pcts, 1, check_from_date, factor_dates)

----------------------------------------------------------------------------
(* storage.py / models.py: the watermark table *)

\* models.py:37: PrimaryKeyConstraint('symbol', 'source')
CleaningLogKey(symbol, source) == <<symbol, source>>

\* worker_clean's query(CleaningLog).filter_by(symbol, source).first()
ReadCleaningLog(log, symbol, source) ==
    IF CleaningLogKey(symbol, source) \in DOMAIN log
    THEN log[CleaningLogKey(symbol, source)]
    ELSE NoDate

\* An upsert on the composite key, as clean_symbol's call expects it:
\* update_cleaning_log(symbol, source_name, latest_date, session).
update_cleaning_log_upsert(log, call_args) ==
    LET key == CleaningLogKey(call_args[1], call_args[2])
    IN [raised |-> FALSE,
        log |-> [k \in DOMAIN log \cup {key} |->
                    IF k = key THEN call_args[3] ELSE log[k]]]

\* storage.py:84 def update_cleaning_log(symbol, latest_date, session).
\* Binding more positional arguments than the three parameters raises
\* TypeError before the body runs.  The body itself inserts (symbol,
\* last_cleaned_date) ON CONFLICT (symbol): it names no source, and symbol
\* alone is no unique key of cleaning_log, so the statement is rejected too.
update_cleaning_log(log, call_args) ==
    LET params == <<"symbol", "latest_date", "session">>
    IN IF Len(call_args) # Len(params)
       THEN [raised |-> TRUE, log |-> log]
       ELSE [raised |-> TRUE, log |-> log]

----------------------------------------------------------------------------
(* cleaner.py: clean_symbol and worker_clean *)

FaultPoints == {"load_bars", "load_factors", "read_log", "commit", "none"}

NoScan == [ran |-> FALSE, source |-> "", full |-> FALSE, before |-> NoDate,
           loaded |-> {}, found |-> <<>>, pushed |-> NoDate, raised |-> FALSE,
           returned |-> <<>>, prev_full_pushed |-> NoDate]

\* 'symbol' and 'check_type' added to each issue
TagIssues(issues, symbol, check_type) ==
    [i \in 1..Len(issues) |->
        [trade_date |-> issues[i].trade_date, issue |-> issues[i].issue,
         severity |-> issues[i].severity, details |-> issues[i].details,
         symbol |-> symbol, check_type |-> check_type]]

latest_date_in_df_min(daily_df) == SetMin(FrameDates(daily_df))

\* daily_df['trade_date'].max()
latest_date_in_df(daily_df) == SetMax(FrameDates(daily_df))

\* The result of clean_symbol on the worker's session: raised, the returned
\* issues, the session's view of cleaning_log, and what the scan loaded,
\* found and handed to update_cleaning_log.
clean_symbol(symbol, source_name, log, last_cleaned_date, full_recheck, fault) ==
    LET start_date == IF full_recheck THEN NoDate ELSE last_cleaned_date
        daily_df == get_data_for_cleaning(bars[source_name][symbol], start_date)
        base == [raised |-> FALSE, issues |-> <<>>, log |-> log, loaded |-> {},
                 found |-> <<>>, pushed |-> NoDate]
    IN IF fault = "load_bars" THEN [base EXCEPT !.raised = TRUE]
       ELSE IF daily_df = <<>> \/ (start_date # NoDate /\ Len(daily_df) <= 1)
       THEN [base EXCEPT !.loaded = FrameDates(daily_df)]
       ELSE IF fault = "load_factors"
       THEN [base EXCEPT !.raised = TRUE, !.loaded = FrameDates(daily_df)]
       ELSE
         LET factor_df == get_adj_factors(factors[source_name][symbol])
             check_from_date ==
                 IF full_recheck \/ last_cleaned_date = NoDate
                 THEN SetMin(FrameDates(daily_df))
                 ELSE last_cleaned_date
             issues == find_data_issues(daily_df, factor_df, check_from_date)
             final_issues == TagIssues(issues, symbol, "single_source")
             latest == latest_date_in_df(daily_df)
             upd == update_cleaning_log(log, <<symbol, source_name, latest, "session">>)
         IN [raised |-> upd.raised,
             issues |-> IF upd.raised THEN <<>> ELSE final_issues,
             log |-> upd.log,
             loaded |-> FrameDates(daily_df),
             found |-> final_issues,
             pushed |-> latest]

\* except Exception: session.rollback(); return []
worker_clean_except_keep(found, log_before, session_log) ==
    [state |-> "Failed", result |-> found, log |-> session_log]

worker_clean_except(found, log_before, session_log) ==
    [state |-> "Failed", result |-> <<>>, log |-> log_before]

\* The outcome of one worker_clean(symbol, source_name, full_recheck): the
\* task's final state, the list it returns, the committed cleaning_log, and
\* the record of the scan.
worker_clean(symbol, source_name, full_recheck, fault) ==
    LET before == ReadCleaningLog(cleaning_log, symbol, source_name)
        last_cleaned_date == IF full_recheck THEN NoDate ELSE before
        cs == clean_symbol(symbol, source_name, cleaning_log, last_cleaned_date,
                           full_recheck, fault)
        \* the scan of this symbol before this one, if nothing was inserted since
        last == scans[symbol]
        prev == IF last.ran /\ last.full /\ last.source = source_name
                THEN last.pushed ELSE NoDate
        scan(c, o) == [ran |-> TRUE, source |-> source_name, full |-> full_recheck,
                       before |-> before, loaded |-> c.loaded, found |-> c.found,
                       pushed |-> c.pushed, raised |-> o.state = "Failed",
                       returned |-> o.result, prev_full_pushed |-> prev]
        unread == [loaded |-> {}, found |-> <<>>, pushed |-> NoDate]
        failed(c) == worker_clean_except(c.found, cleaning_log, c.log)
        done == [state |-> "Completed", result |-> cs.issues, log |-> cs.log]
    IN IF ~full_recheck /\ fault = "read_log"
       THEN [out |-> worker_clean_except(<<>>, cleaning_log, cleaning_log),
             scan |-> scan(unread,
                           worker_clean_except(<<>>, cleaning_log, cleaning_log))]
       ELSE IF cs.raised \/ fault = "commit"
       THEN [out |-> failed(cs), scan |-> scan(cs, failed(cs))]
       ELSE [out |-> done, scan |-> scan(cs, done)]

----------------------------------------------------------------------------
(* cleaner.py: trading calendar and cross-source reconciler *)

\* _trade_date_cache = None; fetches counts the calls of
\* ak.tool_trade_date_hist_sina() the process has made (history).
NoCache == [loaded |-> FALSE, dates |-> {}, fetches |-> 0]

\* A calendar that falls back to every date when the provider call fails.
get_trade_calendar_fallback(cache, fetch_ok) ==
    IF ~cache.loaded
    THEN IF fetch_ok
         THEN [cache |-> [loaded |-> TRUE, dates |-> market_calendar,
                          fetches |-> cache.fetches + 1],
               df |-> market_calendar]
         ELSE [cache |-> [cache EXCEPT !.fetches = @ + 1], df |-> Dates]
    ELSE [cache |-> cache, df |-> cache.dates]

\* get_trade_calendar() in a process whose _trade_date_cache is cache;
\* fetch_ok tells whether the provider call succeeds.  A failed fetch
\* returns an empty frame and leaves the cache unset.
get_trade_calendar(cache, fetch_ok) ==
    IF ~cache.loaded
    THEN IF fetch_ok
         THEN [cache |-> [loaded |-> TRUE, dates |-> market_calendar,
                          fetches |-> cache.fetches + 1],
               df |-> market_calendar]
         ELSE [cache |-> [cache EXCEPT !.fetches = @ + 1], df |-> {}]
    ELSE [cache |-> cache, df |-> cache.dates]

\* A comparison relative to the magnitude of close_ak.
MergedRowIssuesAbs(date, ak, bk, suspension_dates) ==
    LET ak_exists == date \in DOMAIN ak
        bk_exists == date \in DOMAIN bk
    IN IF ak_exists /\ bk_exists
       THEN
            IF ak[date].close # 0
               /\ 1000 * Abs(ak[date].close - bk[date].close) > Abs(ak[date].close)
            THEN <<[trade_date |-> date, issue |-> "price_inconsistency",
                    severity |-> "Error",
                    details |-> <<ak[date].close, bk[date].close>>]>>
            ELSE <<>>
       ELSE IF ak_exists /\ ~bk_exists
       THEN IF date \notin suspension_dates
            THEN <<[trade_date |-> date, issue |-> "one_sided_missing",
                    severity |-> "Warning", details |-> <<"baostock">>]>>
            ELSE <<>>
       ELSE IF ~ak_exists /\ bk_exists
       THEN IF date \notin suspension_dates
            THEN <<[trade_date |-> date, issue |-> "one_sided_missing",
                    severity |-> "Warning", details |-> <<"akshare">>]>>
            ELSE <<>>
       ELSE <<>>

\* One-sided gaps that name the provider that has the bar.
MergedRowIssuesSwapped(date, ak, bk, suspension_dates) ==
    LET ak_exists == date \in DOMAIN ak
        bk_exists == date \in DOMAIN bk
    IN IF ak_exists /\ bk_exists
       THEN
            IF ak[date].close > 0
               /\ 1000 * Abs(ak[date].close - bk[date].close) > ak[date].close
            THEN <<[trade_date |-> date, issue |-> "price_inconsistency",
                    severity |-> "Error",
                    details |-> <<ak[date].close, bk[date].close>>]>>
            ELSE <<>>
       ELSE IF ak_exists /\ ~bk_exists
       THEN IF date \notin suspension_dates
            THEN <<[trade_date |-> date, issue |-> "one_sided_missing",
                    severity |-> "Warning", details |-> <<"akshare">>]>>
            ELSE <<>>
       ELSE IF ~ak_exists /\ bk_exists
       THEN IF date \notin suspension_dates
            THEN <<[trade_date |-> date, issue |-> "one_sided_missing",
                    severity |-> "Warning", details |-> <<"baostock">>]>>
            ELSE <<>>
       ELSE <<>>

\* the branch of the loop over df_merged.iterrows() for one trade_date
MergedRowIssues(date, ak, bk, suspension_dates) ==
    LET ak_exists == date \in DOMAIN ak
        bk_exists == date \in DOMAIN bk
    IN IF ak_exists /\ bk_exists
       THEN \* abs(close_ak - close_bk) / close_ak > 0.001, 0 when close_ak = 0
            \* (a negative close_ak makes the quotient negative: never above)
            IF ak[date].close > 0
               /\ 1000 * Abs(ak[date].close - bk[date].close) > ak[date].close
            THEN <<[trade_date |-> date, issue |-> "price_inconsistency",
                    severity |-> "Error",
                    details |-> <<ak[date].close, bk[date].close>>]>>
            ELSE <<>>
       ELSE IF ak_exists /\ ~bk_exists
       THEN IF date \notin suspension_dates
            THEN <<[trade_date |-> date, issue |-> "one_sided_missing",
                    severity |-> "Warning", details |-> <<"baostock">>]>>
            ELSE <<>>
       ELSE IF ~ak_exists /\ bk_exists
       THEN IF date \notin suspension_dates
            THEN <<[trade_date |-> date, issue |-> "one_sided_missing",
                    severity |-> "Warning", details |-> <<"akshare">>]>>
            ELSE <<>>
       ELSE <<>>

RECURSIVE MergedIssues(_, _, _, _)
MergedIssues(ds, ak, bk, suspension_dates) ==
    IF ds = <<>> THEN <<>>
    ELSE MergedRowIssues(Head(ds), ak, bk, suspension_dates)
         \o MergedIssues(Tail(ds), ak, bk, suspension_dates)

\* Missing dates reported whether suspended or not.
RECURSIVE BothMissingIssuesAll(_, _)
BothMissingIssuesAll(ds, suspension_dates) ==
    IF ds = <<>> THEN <<>>
    ELSE <<[trade_date |-> Head(ds), issue |-> "both_missing",
            severity |-> "Critical", details |-> <<"akshare", "baostock">>]>>
         \o BothMissingIssuesAll(Tail(ds), suspension_dates)

RECURSIVE BothMissingIssues(_, _)
BothMissingIssues(ds, suspension_dates) ==
    IF ds = <<>> THEN <<>>
    ELSE (IF Head(ds) \notin suspension_dates
          THEN <<[trade_date |-> Head(ds), issue |-> "both_missing",
                  severity |-> "Critical", details |-> <<"akshare", "baostock">>]>>
          ELSE <<>>)
         \o BothMissingIssues(Tail(ds), suspension_dates)

\* cross_validate_symbol(symbol, session) in a process whose calendar cache
\* is cache: raised, the returned issues and the cache afterwards.
cross_validate_symbol(symbol, cache, fetch_ok, fault) ==
    LET ak == bars["akshare"][symbol]
        bk == bars["baostock"][symbol]
        merged == DOMAIN ak \cup DOMAIN bk
        suspension_dates == suspensions[symbol]
        cal == get_trade_calendar(cache, fetch_ok)
        row_issues == MergedIssues(SortedSeq(merged), ak, bk, suspension_dates)
        expected_dates == {d \in cal.df : d >= SetMin(merged) /\ d <= SetMax(merged)}
        missing_dates == SortedSeq(expected_dates \ merged)
        issues == row_issues \o
                  (IF cal.df # {} THEN BothMissingIssues(missing_dates, suspension_dates)
                   ELSE <<>>)
    IN IF fault = "load_bars" THEN [raised |-> TRUE, issues |-> <<>>, cache |-> cache]
       ELSE IF merged = {} THEN [raised |-> FALSE, issues |-> <<>>, cache |-> cache]
       ELSE [raised |-> FALSE,
             issues |-> TagIssues(issues, symbol, "cross_validation"),
             cache |-> cal.cache]

\* worker_cross_validate(symbol): except Exception: return []
worker_cross_validate(symbol, cache, fetch_ok, fault) ==
    LET cv == cross_validate_symbol(symbol, cache, fetch_ok, fault)
    IN IF cv.raised
       THEN [state |-> "Failed", result |-> <<>>, cache |-> cv.cache]
       ELSE [state |-> "Completed", result |-> cv.issues, cache |-> cv.cache]

----------------------------------------------------------------------------
(* main.py: run_clean and run_cross_validation *)

NoArgs == [command |-> "none", source |-> "", full_recheck |-> FALSE]
NoTask == [state |-> "None", result |-> <<>>, proc |-> NoDate]
NoProbe == [fn |-> "none"]

Terminal == {"Completed", "Failed"}

\* issue['check_run_ts'] = check_run_ts, for each issue of one result
Stamp(issues, check_run_ts) ==
    [i \in 1..Len(issues) |->
        [trade_date |-> issues[i].trade_date, issue |-> issues[i].issue,
         severity |-> issues[i].severity, details |-> issues[i].details,
         symbol |-> issues[i].symbol, check_type |-> issues[i].check_type,
         check_run_ts |-> check_run_ts]]

\* A flush whose commit leaves the first row of the batch behind.
flush_partial(log, batch, fault) ==
    IF fault = "none" THEN [raised |-> FALSE, log |-> log \o batch]
    ELSE [raised |-> TRUE, log |-> log \o <<Head(batch)>>]

\* session.bulk_insert_mappings(DataIssueLog, all_issues); session.commit()
\* and, when either raises, the handler's session.rollback()
flush(log, batch, fault) ==
    IF fault = "none" THEN [raised |-> FALSE, log |-> log \o batch]
    ELSE [raised |-> TRUE, log |-> log]

\* A buffer that keeps its records after the batch was committed.
clear_kept(buffer) == buffer

\* all_issues.clear()
clear(buffer) == <<>>

\* Only the futures of tasks that did not fail.
as_completed_failed_dropped == {s \in Symbols : tasks[s].state = "Completed"} \ collected

\* futures that as_completed can yield next: finished and not yet yielded
as_completed == {s \in Symbols : tasks[s].state \in Terminal} \ collected

\* run_clean / run_cross_validation up to the submission of the futures
StartRun(command, source, full_recheck) ==
    /\ pc = "idle"
    /\ args = NoArgs
    /\ args' = [command |-> command, source |-> source, full_recheck |-> full_recheck]
    /\ tasks' = [s \in Symbols |-> [NoTask EXCEPT !.state = "Pending"]]
    /\ pc' = "collecting"
    /\ collected' = {}
    /\ all_issues' = <<>>
    /\ committed' = 0
    /\ UNCHANGED <<bars, factors, suspensions, cleaning_log, issue_log,
                   market_calendar, trade_date_cache, scans, probe>>

\* An idle pool process takes the oldest pending call from the queue.
TaskStart(s, p) ==
    /\ tasks[s].state = "Pending"
    /\ \A t \in Symbols : t < s => tasks[t].state # "Pending"
    /\ \A t \in Symbols : tasks[t].state = "Running" => tasks[t].proc # p
    /\ tasks' = [tasks EXCEPT ![s] = [@ EXCEPT !.state = "Running", !.proc = p]]
    /\ UNCHANGED <<bars, factors, suspensions, cleaning_log, issue_log,
                   market_calendar, trade_date_cache, args, pc, collected,
                   all_issues, scans, committed, probe>>

\* worker_clean(sym, source_name, args.full_recheck) in its pool process
WorkerClean(s, fault) ==
    /\ args.command = "clean"
    /\ tasks[s].state = "Running"
    /\ LET w == worker_clean(s, args.source, args.full_recheck, fault)
       IN /\ tasks' = [tasks EXCEPT ![s] = [state |-> w.out.state,
                                            result |-> w.out.result,
                                            proc |-> NoDate]]
          /\ cleaning_log' = w.out.log
          /\ scans' = [scans EXCEPT ![s] = w.scan]
    /\ UNCHANGED <<bars, factors, suspensions, issue_log, market_calendar,
                   trade_date_cache, args, pc, collected, all_issues,
                   committed, probe>>

\* worker_cross_validate(sym) in its pool process
WorkerCrossValidate(s, fetch_ok, fault) ==
    /\ args.command = "cross-validate"
    /\ tasks[s].state = "Running"
    /\ LET p == tasks[s].proc
           w == worker_cross_validate(s, trade_date_cache[p], fetch_ok, fault)
       IN /\ tasks' = [tasks EXCEPT ![s] = [state |-> w.state,
                                            result |-> w.result,
                                            proc |-> NoDate]]
          /\ trade_date_cache' = [trade_date_cache EXCEPT ![p] = w.cache]
    /\ UNCHANGED <<bars, factors, suspensions, cleaning_log, issue_log,
                   market_calendar, args, pc, collected, all_issues, scans,
                   committed, probe>>

\* One iteration of the loop over as_completed(futures): extend the buffer
\* with the stamped result and flush it when it reached ISSUE_BATCH_SIZE.
Collect(s, fault) ==
    /\ pc = "collecting"
    /\ s \in as_completed
    /\ collected' = collected \cup {s}
    /\ LET buffer == all_issues \o Stamp(tasks[s].result, "check_run_ts")
       IN IF Len(buffer) >= ISSUE_BATCH_SIZE
          THEN LET f == flush(issue_log, buffer, fault)
               IN /\ issue_log' = f.log
                  /\ IF f.raised
                     THEN /\ pc' = "aborted"
                          /\ all_issues' = buffer
                          /\ committed' = committed
                     ELSE /\ pc' = "collecting"
                          /\ all_issues' = clear(buffer)
                          /\ committed' = committed + 1
          ELSE /\ fault = "none"
               /\ all_issues' = buffer
               /\ UNCHANGED <<issue_log, pc, committed>>
    /\ UNCHANGED <<bars, factors, suspensions, cleaning_log, market_calendar,
                   trade_date_cache, args, tasks, scans, probe>>

\* After the loop: "if all_issues:" insert and commit what is left.
FinalFlush(fault) ==
    /\ pc = "collecting"
    /\ collected = Symbols
    /\ IF all_issues # <<>>
       THEN LET f == flush(issue_log, all_issues, fault)
            IN /\ issue_log' = f.log
               /\ pc' = IF f.raised THEN "aborted" ELSE "done"
               /\ committed' = IF f.raised THEN committed ELSE committed + 1
       ELSE /\ fault = "none"
            /\ pc' = "done"
            /\ UNCHANGED <<issue_log, committed>>
    /\ UNCHANGED <<bars, factors, suspensions, cleaning_log, market_calendar,
                   trade_date_cache, args, tasks, collected, all_issues,
                   scans, probe>>

FlushFaults == {"none", "insert", "commit"}

----------------------------------------------------------------------------
(* Specification of one run of the orchestrator *)

GoodBar == Bar(10, 10, 10, 10)
BadBar == Bar(14, 10, 14, 14)

InitIdle ==
    /\ issue_log = <<>>
    /\ trade_date_cache = [p \in Procs |-> NoCache]
    /\ args = NoArgs
    /\ pc = "idle"
    /\ tasks = [s \in Symbols |-> NoTask]
    /\ collected = {}
    /\ all_issues = <<>>
    /\ scans = [s \in Symbols |-> NoScan]
    /\ committed = 0
    /\ probe = NoProbe

Init ==
    /\ InitIdle
    /\ \E ak \in [Symbols -> SeriesOver({BadBar}, 1..MaxRunDate)],
          bk \in [Symbols -> SeriesOver({GoodBar}, 1..MaxRunDate)] :
          bars = [src \in Sources |-> IF src = "akshare" THEN ak ELSE bk]
    /\ factors = [src \in Sources |-> [s \in Symbols |-> {}]]
    /\ suspensions = [s \in Symbols |-> {}]
    /\ cleaning_log = <<>>
    /\ market_calendar = Dates

Next ==
    \/ \E src \in Sources, full \in BOOLEAN : StartRun("clean", src, full)
    \/ StartRun("cross-validate", "", FALSE)
    \/ \E s \in Symbols, p \in Procs : TaskStart(s, p)
    \/ \E s \in Symbols, fault \in FaultPoints : WorkerClean(s, fault)
    \/ \E s \in Symbols, ok \in BOOLEAN, fault \in {"load_bars", "none"} :
          WorkerCrossValidate(s, ok, fault)
    \/ \E s \in Symbols, fault \in FlushFaults : Collect(s, fault)
    \/ \E fault \in FlushFaults : FinalFlush(fault)

Spec == Init /\ [][Next]_vars

\* The operating system keeps scheduling the pool processes and the
\* orchestrator while any of them can take a step.
FairSpec == Spec /\ WF_vars(Next)

----------------------------------------------------------------------------
(* Specification of scans of one instrument interleaved with ingestion *)

\* one worker_clean(symbol, source_name, full_recheck) call, start to end
Scan(s, source_name, full_recheck, fault) ==
    /\ LET w == worker_clean(s, source_name, full_recheck, fault)
       IN /\ cleaning_log' = w.out.log
          /\ scans' = [scans EXCEPT ![s] = w.scan]
    /\ UNCHANGED <<bars, factors, suspensions, issue_log, market_calendar,
                   trade_date_cache, args, pc, tasks, collected, all_issues,
                   committed, probe>>

\* storage.upsert_bars of one new bar: ON CONFLICT (symbol, trade_date) DO NOTHING
InsertBar(source_name, s, d, b) ==
    /\ d \notin DOMAIN bars[source_name][s]
    /\ bars' = [bars EXCEPT ![source_name][s] =
                   [x \in DOMAIN @ \cup {d} |-> IF x = d THEN b ELSE @[x]]]
    /\ scans' = [scans EXCEPT ![s] = NoScan]
    /\ UNCHANGED <<factors, suspensions, cleaning_log, issue_log, market_calendar,
                   trade_date_cache, args, pc, tasks, collected, all_issues,
                   committed, probe>>

ScanBars == {GoodBar, BadBar}

\* The pair under scan is (symbol 1, akshare).  A watermark row found in
\* the database is the trade_date of a stored bar of the pair.
InitScan ==
    /\ InitIdle
    /\ \E ak \in SeriesOver(ScanBars, Dates) :
          /\ bars = [src \in Sources |-> [s \in Symbols |->
                        IF s = 1 /\ src = "akshare" THEN ak ELSE <<>>]]
          /\ \E wa \in {NoDate} \cup DOMAIN ak :
                cleaning_log =
                    [k \in {x \in {1} \X {"akshare"} : wa # NoDate} |-> wa]
    /\ factors = [src \in Sources |-> [s \in Symbols |-> {}]]
    /\ suspensions = [s \in Symbols |-> {}]
    /\ market_calendar = Dates

NextScan ==
    \/ \E full \in BOOLEAN, fault \in FaultPoints : Scan(1, "akshare", full, fault)
    \/ \E d \in Dates, b \in ScanBars : InsertBar("akshare", 1, d, b)

SpecScan == InitScan /\ [][NextScan]_vars

----------------------------------------------------------------------------
(* Specification of direct calls of find_data_issues *)

RuleCloses == {0, 10, 14}
\* <<open, high, low>>: sound, open <= 0, high and low <= 0, low <= 0, low > high
RuleShapes == {<<10, 14, 10>>, <<0, 14, 10>>, <<10, 0, 0>>, <<10, 14, 0>>,
               <<10, 10, 14>>}
RuleBars == {Bar(sh[1], sh[2], sh[3], c) : sh \in RuleShapes, c \in RuleCloses}

CallFindDataIssues(check_from_date) ==
    /\ probe.fn = "none"
    /\ LET daily_df == ReadBars(bars["akshare"][1], Dates)
           factor_df == get_adj_factors(factors["akshare"][1])
       IN probe' = [fn |-> "find_data_issues",
                    daily_df |-> daily_df,
                    factor_df |-> factor_df,
                    check_from_date |-> check_from_date,
                    out |-> find_data_issues(daily_df, factor_df, check_from_date)]
    /\ UNCHANGED <<bars, factors, suspensions, cleaning_log, issue_log,
                   market_calendar, trade_date_cache, args, pc, tasks, collected,
                   all_issues, scans, committed>>

InitRules ==
    /\ InitIdle
    /\ \E t \in SeriesOver(RuleBars, 1..MaxRuleDate), f \in SUBSET (1..MaxRuleDate) :
          /\ bars = [src \in Sources |-> [s \in Symbols |->
                        IF s = 1 /\ src = "akshare" THEN t ELSE <<>>]]
          /\ factors = [src \in Sources |-> [s \in Symbols |->
                           IF s = 1 /\ src = "akshare" THEN f ELSE {}]]
    /\ suspensions = [s \in Symbols |-> {}]
    /\ cleaning_log = <<>>
    /\ market_calendar = Dates

NextRules == \E c \in {NoDate} \cup Dates : CallFindDataIssues(c)

SpecRules == InitRules /\ [][NextRules]_vars

----------------------------------------------------------------------------
(* data_sources/baostock_source.py: BaostockSource.fetch_factors *)

\* dates of the skeleton of trading days and of the adjustment events
MaxFactorDate == 5
FactorDates == 1..MaxFactorDate

\* A factor is the exact positive fraction <<numerator, denominator>> in
\* lowest terms, standing for the float64 column value.
RECURSIVE GCD(_, _)
GCD(a, b) == IF b = 0 THEN a ELSE GCD(b, a % b)

Ratio(n, d) == <<n \div GCD(n, d), d \div GCD(n, d)>>
RatMul(x, y) == Ratio(x[1] * y[1], x[2] * y[2])
RatInv(x) == Ratio(x[2], x[1])
RatOne == <<1, 1>>

\* Series.cumprod(): element i is the product of elements 1..i
RECURSIVE cumprod(_)
cumprod(col) ==
    IF Len(col) <= 1 THEN col
    ELSE LET head == cumprod(SubSeq(col, 1, Len(col) - 1))
         IN Append(head, RatMul(head[Len(head)], col[Len(col)]))

\* the frame's index in descending order
Descending(days) ==
    LET asc == SortedSeq(days)
    IN [i \in 1..Len(asc) |-> asc[Len(asc) + 1 - i]]

\* The raw foreAdjustFactor taken as the per-day ratio.
forward_factor_discrete_raw(events, d) ==
    IF d \in DOMAIN events THEN events[d].foreAdjustFactor ELSE RatOne

\* df_days['forward_factor_discrete'] = 1 / df_events['foreAdjustFactor'],
\* aligned on trade_date, then fillna(1.0)
forward_factor_discrete(events, d) ==
    IF d \in DOMAIN events THEN RatInv(events[d].foreAdjustFactor) ELSE RatOne

\* df_days['back_factor_discrete'] = df_events['backAdjustFactor'], fillna(1.0)
back_factor_discrete(events, d) ==
    IF d \in DOMAIN events THEN events[d].backAdjustFactor ELSE RatOne

\* A forward factor accumulated from the oldest date on.
forward_factor_ascending(days, events) ==
    LET idx == SortedSeq(days)
        col == cumprod([i \in 1..Len(idx) |-> forward_factor_discrete(events, idx[i])])
    IN [d \in days |-> col[CHOOSE i \in 1..Len(idx) : idx[i] = d]]

\* sort_index(ascending=False); forward_factor = forward_factor_discrete.cumprod()
forward_factor(days, events) ==
    LET idx == Descending(days)
        col == cumprod([i \in 1..Len(idx) |-> forward_factor_discrete(events, idx[i])])
    IN [d \in days |-> col[CHOOSE i \in 1..Len(idx) : idx[i] = d]]

\* sort_index(ascending=True); back_factor = back_factor_discrete.cumprod()
back_factor(days, events) ==
    LET idx == SortedSeq(days)
        col == cumprod([i \in 1..Len(idx) |-> back_factor_discrete(events, idx[i])])
    IN [d \in days |-> col[CHOOSE i \in 1..Len(idx) : idx[i] = d]]

\* fetch_factors once the provider has answered: days are the trading days
\* of the instrument, events the rows of query_adjust_factor by
\* dividOperateDate.  The two returned frames, rows ascending by trade_date.
fetch_factors(days, events) ==
    LET idx == SortedSeq(days)
        fwd == IF DOMAIN events = {} THEN [d \in days |-> RatOne]
               ELSE forward_factor(days, events)
        bwd == IF DOMAIN events = {} THEN [d \in days |-> RatOne]
               ELSE back_factor(days, events)
    IN [forward |-> [i \in 1..Len(idx) |->
                        [trade_date |-> idx[i], forward_factor |-> fwd[idx[i]]]],
        back |-> [i \in 1..Len(idx) |->
                     [trade_date |-> idx[i], back_factor |-> bwd[idx[i]]]]]

\* rows of query_adjust_factor: a 2-for-1 and a 3-for-2 adjustment
FactorEvents ==
    {[foreAdjustFactor |-> <<2, 1>>, backAdjustFactor |-> <<1, 2>>],
     [foreAdjustFactor |-> <<3, 2>>, backAdjustFactor |-> <<3, 1>>]}

CallFetchFactors(days, events) ==
    /\ probe.fn = "none"
    /\ LET out == fetch_factors(days, events)
       IN probe' = [fn |-> "fetch_factors", days |-> days, events |-> events,
                    forward |-> out.forward, back |-> out.back]
    /\ UNCHANGED <<bars, factors, suspensions, cleaning_log, issue_log,
                   market_calendar, trade_date_cache, args, pc, tasks, collected,
                   all_issues, scans, committed>>

InitFactors ==
    /\ InitIdle
    /\ bars = [src \in Sources |-> [s \in Symbols |-> <<>>]]
    /\ factors = [src \in Sources |-> [s \in Symbols |-> {}]]
    /\ suspensions = [s \in Symbols |-> {}]
    /\ cleaning_log = <<>>
    /\ market_calendar = Dates

NextFactors ==
    \E days \in SUBSET FactorDates \ {{}} :
        \E on \in SUBSET FactorDates :
            \E events \in [on -> FactorEvents] : CallFetchFactors(days, events)

SpecFactors == InitFactors /\ [][NextFactors]_vars

----------------------------------------------------------------------------
(* Specification of a factor update followed by a single-source check *)

\* closes of sound bars: 10 -> 14 and 14 -> 20 are moves above 30%
DenseCloses == {10, 14, 20}
DenseBars == {Bar(c, c, c, c) : c \in DenseCloses}

\* upsert_factors: one row of adj_factor_baostock per row of the frame
upsert_factors(factor_table, df) ==
    factor_table \cup {df[i].trade_date : i \in 1..Len(df)}

\* run_update_factor for symbol 1 of baostock: the synthesizer's series over
\* the instrument's trading days is written to the factor table.
UpdateFactor(events) ==
    /\ probe.fn = "none"
    /\ DOMAIN bars["baostock"][1] # {}
    /\ DOMAIN events \subseteq DOMAIN bars["baostock"][1]
    /\ LET days == DOMAIN bars["baostock"][1]
           out == fetch_factors(days, events)
       IN /\ factors' = [factors EXCEPT !["baostock"][1] =
                            upsert_factors(@, out.forward)]
          /\ probe' = [fn |-> "fetch_factors", days |-> days, events |-> events,
                       forward |-> out.forward, back |-> out.back]
    /\ UNCHANGED <<bars, suspensions, cleaning_log, issue_log,
                   market_calendar, trade_date_cache, args, pc, tasks, collected,
                   all_issues, scans, committed>>

\* find_data_issues as clean_symbol calls it for symbol 1 of baostock, once
\* the factor table has been written; the events are kept for reference.
CheckAfterUpdate(check_from_date) ==
    /\ probe.fn = "fetch_factors"
    /\ LET daily_df == ReadBars(bars["baostock"][1], Dates)
           factor_df == get_adj_factors(factors["baostock"][1])
       IN probe' = [fn |-> "find_data_issues",
                    daily_df |-> daily_df,
                    factor_df |-> factor_df,
                    check_from_date |-> check_from_date,
                    events |-> probe.events,
                    out |-> find_data_issues(daily_df, factor_df, check_from_date)]
    /\ UNCHANGED <<bars, factors, suspensions, cleaning_log, issue_log,
                   market_calendar, trade_date_cache, args, pc, tasks, collected,
                   all_issues, scans, committed>>

InitDense ==
    /\ InitIdle
    /\ \E t \in SeriesOver(DenseBars, Dates) :
          bars = [src \in Sources |-> [s \in Symbols |->
                    IF s = 1 /\ src = "baostock" THEN t ELSE <<>>]]
    /\ factors = [src \in Sources |-> [s \in Symbols |-> {}]]
    /\ suspensions = [s \in Symbols |-> {}]
    /\ cleaning_log = <<>>
    /\ market_calendar = Dates

NextDense ==
    \/ \E on \in SUBSET Dates : \E events \in [on -> FactorEvents] :
          UpdateFactor(events)
    \/ \E c \in {NoDate} \cup Dates : CheckAfterUpdate(c)

SpecDense == InitDense /\ [][NextDense]_vars

----------------------------------------------------------------------------
(* Specification of calls of the reconciler in one worker process *)

\* calls of the calendar provider one process may make
MaxFetches == 2

\* closes of the two providers: zero, negative, equal up to exactly 0.1%
\* (1000 against 1001) and 0.2% apart (1000 against 1002)
CrossClosesAk == {0, 1000, 0 - 1000}
CrossClosesBk == {1001, 1002}
CrossBars(closes) == {Bar(c, c, c, c) : c \in closes}

\* cross_validate_symbol(1, session) in worker process 1
CallCrossValidate(fetch_ok, fault) ==
    /\ trade_date_cache[1].fetches < MaxFetches
    /\ LET cv == cross_validate_symbol(1, trade_date_cache[1], fetch_ok, fault)
       IN /\ probe' = [fn |-> "cross_validate_symbol",
                       cache |-> trade_date_cache[1],
                       fetch_ok |-> fetch_ok,
                       fault |-> fault,
                       raised |-> cv.raised,
                       out |-> cv.issues]
          /\ trade_date_cache' = [trade_date_cache EXCEPT ![1] = cv.cache]
    /\ UNCHANGED <<bars, factors, suspensions, cleaning_log, issue_log,
                   market_calendar, args, pc, tasks, collected, all_issues,
                   scans, committed>>

\* get_trade_calendar() in worker process 1
CallGetTradeCalendar(fetch_ok) ==
    /\ trade_date_cache[1].fetches < MaxFetches
    /\ LET cal == get_trade_calendar(trade_date_cache[1], fetch_ok)
       IN /\ probe' = [fn |-> "get_trade_calendar",
                       cache |-> trade_date_cache[1],
                       fetch_ok |-> fetch_ok,
                       df |-> cal.df]
          /\ trade_date_cache' = [trade_date_cache EXCEPT ![1] = cal.cache]
    /\ UNCHANGED <<bars, factors, suspensions, cleaning_log, issue_log,
                   market_calendar, args, pc, tasks, collected, all_issues,
                   scans, committed>>

InitCross ==
    /\ InitIdle
    /\ \E ak \in SeriesOver(CrossBars(CrossClosesAk), Dates),
          bk \in SeriesOver(CrossBars(CrossClosesBk), Dates) :
          bars = [src \in Sources |-> [s \in Symbols |->
                     IF s # 1 THEN <<>>
                     ELSE IF src = "akshare" THEN ak ELSE bk]]
    /\ \E sus \in SUBSET {2} : suspensions = [s \in Symbols |-> sus]
    /\ market_calendar \in {Dates, Dates \ {2}}
    /\ factors = [src \in Sources |-> [s \in Symbols |-> {}]]
    /\ cleaning_log = <<>>

NextCross ==
    \/ \E ok \in BOOLEAN, fault \in {"load_bars", "none"} : CallCrossValidate(ok, fault)
    \/ \E ok \in BOOLEAN : CallGetTradeCalendar(ok)

SpecCross == InitCross /\ [][NextCross]_vars

----------------------------------------------------------------------------
(* Claims about find_data_issues, checked under SpecRules *)

Called == probe.fn = "find_data_issues"

\* the rows of the probed frame inside the reporting window
InWindow(i) ==
    probe.check_from_date = NoDate
        \/ probe.daily_df[i].trade_date >= probe.check_from_date

\* how many returned issues have this date, kind and severity
CountOut(d, kind, sev) ==
    Cardinality({j \in 1..Len(probe.out) :
                    /\ probe.out[j].trade_date = d
                    /\ probe.out[j].issue = kind
                    /\ probe.out[j].severity = sev})

Severities == {"Warning", "Error", "Critical"}

\* the bar stored for the row's date fails the sanity conditions of the claim
InsaneBar(b) ==
    \E px \in {b.open, b.high, b.low, b.close} : px <= 0 \/ b.low > b.high

\* C9: every bar in the reporting window with an open, high, low or close
\* <= 0 or with low > high gets exactly one price-anomaly issue, of severity
\* Error, whatever its neighbours are; a bar in the window with four positive
\* prices and low <= high gets no price-anomaly issue.
C9_PriceSanity ==
    Called =>
        \A i \in 1..Len(probe.daily_df) :
            LET d == probe.daily_df[i].trade_date
                b == bars["akshare"][1][d]
            IN InWindow(i) =>
                  /\ CountOut(d, "price_anomaly", "Error")
                        = (IF InsaneBar(b) THEN 1 ELSE 0)
                  /\ \A sev \in Severities \ {"Error"} :
                        CountOut(d, "price_anomaly", sev) = 0

\* A call whose window holds a bar that is unsound only by its close, after a
\* sound bar that is in the window too.
C9_Witness ==
    /\ Called
    /\ \E i \in 1..Len(probe.daily_df) :
          LET d == probe.daily_df[i].trade_date
              b == bars["akshare"][1][d]
          IN /\ i > 1
             /\ InWindow(i - 1)
             /\ ~InsaneBar(bars["akshare"][1][probe.daily_df[i-1].trade_date])
             /\ b.close <= 0 /\ b.open > 0 /\ b.low > 0 /\ b.high >= b.low
             /\ CountOut(d, "price_anomaly", "Error") = 1

\* the close of the bar stored just before date d, and whether there is one
HasPrior(d) == \E e \in DOMAIN bars["akshare"][1] : e < d
PriorClose(d) ==
    bars["akshare"][1][SetMax({e \in DOMAIN bars["akshare"][1] : e < d})].close

\* |close/prior - 1| > 0.30, for a prior close other than 0
JumpOver30(prior, close) == 10 * Abs(close - prior) > 3 * Abs(prior)

----------------------------------------------------------------------------
(* Claims about scans and the watermark, checked under SpecScan *)

\* the stored watermark of the pair the last scan of symbol s was for
Watermark(s) == ReadCleaningLog(cleaning_log, s, scans[s].source)

\* C2: after a full scan has advanced the watermark to W (the latest
\* trade_date it loaded), an incremental scan with no bar inserted in between
\* starts from watermark W, finds no issue dated W or earlier, and leaves the
\* watermark at W.
C2_Idempotence ==
    \A s \in Symbols :
        LET W == scans[s].prev_full_pushed
        IN (scans[s].ran /\ ~scans[s].full /\ W # NoDate) =>
              /\ scans[s].before = W
              /\ \A j \in 1..Len(scans[s].found) : scans[s].found[j].trade_date > W
              /\ Watermark(s) = W

\* C3: a scan never moves a watermark backwards: the date clean_symbol hands
\* to the upsert, and the watermark stored after the scan, are not earlier
\* than the watermark stored before it.
C3_WatermarkMonotonic ==
    \A s \in Symbols :
        (scans[s].ran /\ scans[s].before # NoDate) =>
            /\ Watermark(s) >= scans[s].before
            /\ scans[s].pushed # NoDate => scans[s].pushed >= scans[s].before

\* An incremental scan that loaded a bar newer than the stored watermark and
\* handed its date to the upsert.
C3_Witness ==
    \E s \in Symbols :
        /\ scans[s].ran /\ ~scans[s].full
        /\ scans[s].before # NoDate
        /\ scans[s].pushed > scans[s].before

\* C4: a worker_clean call that raises inside its try block returns the empty
\* list and leaves the stored watermark of its (symbol, provider) as it was
\* before the call.
C4_FailedScanKeepsWatermark ==
    \A s \in Symbols :
        (scans[s].ran /\ scans[s].raised) =>
            /\ scans[s].returned = <<>>
            /\ Watermark(s) = scans[s].before

\* A scan that found issues, raised at the watermark upsert, returned nothing
\* and left an existing watermark in place.
C4_Witness ==
    \E s \in Symbols :
        /\ scans[s].ran /\ scans[s].raised
        /\ scans[s].found # <<>>
        /\ scans[s].pushed # NoDate
        /\ scans[s].before # NoDate
        /\ scans[s].returned = <<>>
        /\ Watermark(s) = scans[s].before

\* C8: once clean_symbol has written date d for (s, A) and the scan has
\* ended, reading (s, A) returns d.
C8_UpsertOnCompositeKey ==
    \A s \in Symbols :
        (scans[s].ran /\ scans[s].pushed # NoDate) =>
            Watermark(s) = scans[s].pushed

----------------------------------------------------------------------------
(* Claims about the orchestrator, checked under Spec and FairSpec *)

Range(f) == {f[i] : i \in DOMAIN f}
Occurrences(f, r) == Cardinality({i \in DOMAIN f : f[i] = r})

\* the records the orchestrator makes of the result of task s
Records(s) == Stamp(tasks[s].result, "check_run_ts")

RECURSIVE TotalLen(_)
TotalLen(S) ==
    IF S = {} THEN 0
    ELSE LET s == CHOOSE x \in S : TRUE
         IN Len(tasks[s].result) + TotalLen(S \ {s})

AllTerminal == \A s \in Symbols : tasks[s].state \in Terminal
RunOver == pc \in {"done", "aborted"} /\ AllTerminal

\* the issues the scan of s found are in data_issue_log
FoundPersisted(s) ==
    \A r \in Range(Stamp(scans[s].found, "check_run_ts")) : r \in Range(issue_log)

TaskMoves == {<<"None", "Pending">>, <<"Pending", "Running">>,
              <<"Running", "Completed">>, <<"Running", "Failed">>}

\* C5: a task only moves Pending -> Running -> Completed or Failed and stays
\* in its terminal state; whatever the interleaving and whichever tasks fail,
\* every task reaches a terminal state and the orchestrator finishes its
\* collection; and in a run that ends without a persistence fault every issue
\* of every Completed task is in data_issue_log.
C5_TaskIsolation ==
    /\ [][\A s \in Symbols :
             tasks'[s].state # tasks[s].state =>
                 <<tasks[s].state, tasks'[s].state>> \in TaskMoves]_vars
    /\ <>AllTerminal
    /\ <>(pc \in {"done", "aborted"})
    /\ [](pc = "done" =>
            \A s \in Symbols :
                tasks[s].state = "Completed" =>
                    \A r \in Range(Records(s)) : r \in Range(issue_log))

\* A finished run in which one task failed and a sibling completed with
\* issues that are in data_issue_log.
C5_Witness ==
    /\ pc = "done"
    /\ \E s, t \in Symbols :
          /\ tasks[s].state = "Failed"
          /\ tasks[t].state = "Completed"
          /\ tasks[t].result # <<>>
          /\ \A r \in Range(Records(t)) : r \in Range(issue_log)

\* every issue returned by a task is in data_issue_log exactly once, and
\* nothing else is
InsertedExactlyOnce ==
    /\ \A s \in Symbols : \A r \in Range(Records(s)) : Occurrences(issue_log, r) = 1
    /\ Len(issue_log) = TotalLen(Symbols)

\* C6: after each processed task result the buffer holds fewer than
\* ISSUE_BATCH_SIZE records; when the run ends without a persistence fault
\* the buffer is empty and every issue returned by a task has been inserted
\* exactly once.
C6_BatchingOriginal ==
    /\ pc = "collecting" => Len(all_issues) < ISSUE_BATCH_SIZE
    /\ pc = "done" => all_issues = <<>> /\ InsertedExactlyOnce

\* C6 as amended: after each processed task result the buffer holds fewer
\* than ISSUE_BATCH_SIZE records; when the run ends without a persistence
\* fault every record still in the buffer has been inserted (the final flush
\* does not clear it) and every issue returned by a task has been inserted
\* exactly once.
C6_Batching ==
    /\ pc = "collecting" => Len(all_issues) < ISSUE_BATCH_SIZE
    /\ pc = "done" =>
          /\ \A r \in Range(all_issues) : r \in Range(issue_log)
          /\ InsertedExactlyOnce

\* A finished run that committed a batch at the threshold and another one in
\* the final flush.
C6_Witness ==
    /\ pc = "done"
    /\ committed >= 2
    /\ all_issues # <<>>
    /\ Len(issue_log) > Len(all_issues)

\* C7: when the insert or commit of a batch raises, none of the issues of
\* that batch is in data_issue_log, and every issue of the batches committed
\* earlier in the run is: each collected record is either in the table or
\* in the failed batch, never both.
C7_PartialRun ==
    pc = "aborted" =>
        /\ \A r \in Range(all_issues) : r \notin Range(issue_log)
        /\ \A s \in collected : \A r \in Range(Records(s)) :
              Occurrences(issue_log, r) + Occurrences(all_issues, r) = 1
        /\ Len(issue_log) + Len(all_issues) = TotalLen(collected)

\* A run aborted by a failed flush after an earlier batch was committed.
C7_Witness ==
    /\ pc = "aborted"
    /\ committed >= 1
    /\ issue_log # <<>>
    /\ all_issues # <<>>

----------------------------------------------------------------------------
(* Claims about the reconciler and the calendar, checked under SpecCross *)

\* a call of cross_validate_symbol that returned
CrossReturned == probe.fn = "cross_validate_symbol" /\ ~probe.raised

\* the call had a calendar: cached earlier, or fetched by this call
CalendarSeen == probe.cache.loaded \/ probe.fetch_ok

AkBars == bars["akshare"][1]
BkBars == bars["baostock"][1]
JoinedDates == DOMAIN AkBars \cup DOMAIN BkBars

\* the returned issues dated d
IssuesOn(d) == {j \in 1..Len(probe.out) : probe.out[j].trade_date = d}

\* |a - b| / a > 0.001 over the rationals, for a other than 0
Over01Percent(a, b) ==
    \/ a > 0 /\ 1000 * Abs(a - b) > a
    \/ a < 0 /\ 1000 * Abs(a - b) < a

\* C12: for every date on which both providers have a close, the reconciler
\* returns exactly one issue, an Error price inconsistency, iff
\* |close_A - close_B| / close_A > 0.001, and no issue for that date
\* otherwise; with close_A = 0 it returns none.
C12_CrossPriceComparison ==
    CrossReturned =>
        \A d \in DOMAIN AkBars \cap DOMAIN BkBars :
            LET a == AkBars[d].close
                b == BkBars[d].close
            IN IF a # 0 /\ Over01Percent(a, b)
               THEN /\ Cardinality(IssuesOn(d)) = 1
                    /\ CountOut(d, "price_inconsistency", "Error") = 1
               ELSE IssuesOn(d) = {}

\* A call that flags a 0.2% difference and returns nothing for a date with
\* a difference of exactly 0.1%, for one with close_A = 0 and for one with a
\* negative close_A.
C12_Witness ==
    /\ CrossReturned
    /\ \E d \in DOMAIN AkBars \cap DOMAIN BkBars :
          /\ AkBars[d].close = 1000 /\ BkBars[d].close = 1002
          /\ CountOut(d, "price_inconsistency", "Error") = 1
    /\ \E d \in DOMAIN AkBars \cap DOMAIN BkBars :
          /\ AkBars[d].close = 1000 /\ BkBars[d].close = 1001
          /\ IssuesOn(d) = {}
    /\ \E d \in DOMAIN AkBars \cap DOMAIN BkBars :
          AkBars[d].close <= 0 /\ IssuesOn(d) = {}

\* the provider whose series lacks date d, when exactly one does
Lacking(d) == IF d \in DOMAIN AkBars THEN "baostock" ELSE "akshare"

OneSided(d) == (d \in DOMAIN AkBars) # (d \in DOMAIN BkBars)

\* C13: for every date present in exactly one provider's series the
\* reconciler returns exactly one issue, a Warning one-sided gap whose details
\* name the provider that lacks the bar, when the date is no suspension date,
\* and no issue for that date when it is one.
C13_OneSidedGaps ==
    CrossReturned =>
        \A d \in JoinedDates :
            OneSided(d) =>
                IF d \notin suspensions[1]
                THEN /\ Cardinality(IssuesOn(d)) = 1
                     /\ \A j \in IssuesOn(d) :
                           /\ probe.out[j].issue = "one_sided_missing"
                           /\ probe.out[j].severity = "Warning"
                           /\ probe.out[j].details = <<Lacking(d)>>
                ELSE IssuesOn(d) = {}

\* A call with a date only akshare has, a date only baostock has, both
\* reported, and a one-sided suspended date that is not.
C13_Witness ==
    /\ CrossReturned
    /\ \E d, e, f \in JoinedDates :
          /\ d \in DOMAIN AkBars /\ d \notin DOMAIN BkBars
          /\ e \in DOMAIN BkBars /\ e \notin DOMAIN AkBars
          /\ d \notin suspensions[1] /\ e \notin suspensions[1]
          /\ Cardinality(IssuesOn(d)) = 1 /\ Cardinality(IssuesOn(e)) = 1
          /\ OneSided(f) /\ f \in suspensions[1] /\ IssuesOn(f) = {}

\* d is a calendar date inside the joined series that neither provider has
\* and that is no suspension date
TwoSidedGap(d) ==
    /\ d \in market_calendar
    /\ JoinedDates # {}
    /\ SetMin(JoinedDates) <= d /\ d <= SetMax(JoinedDates)
    /\ d \notin JoinedDates
    /\ d \notin suspensions[1]

\* C14: with the calendar at hand, every calendar date within [min, max] of
\* the joined series that both providers lack and that is no suspension date
\* gets exactly one issue, of severity Critical; every other date (one with a
\* row in a provider, a suspension date, one outside the calendar or outside
\* [min, max]) gets no Critical issue.
C14_TwoSidedGaps ==
    CrossReturned =>
        \A d \in Dates :
            LET critical == {j \in IssuesOn(d) : probe.out[j].severity = "Critical"}
            IN IF CalendarSeen /\ TwoSidedGap(d)
               THEN Cardinality(critical) = 1 /\ Cardinality(IssuesOn(d)) = 1
               ELSE critical = {}

\* A call that reports the gap at date 2 between bars of dates 1 and 3.
C14_Witness ==
    /\ CrossReturned /\ CalendarSeen
    /\ TwoSidedGap(2)
    /\ Cardinality(IssuesOn(2)) = 1
    /\ \A j \in IssuesOn(2) : probe.out[j].severity = "Critical"

\* C16: a process calls the calendar provider at most once.
C16_CalendarFetchedOnce ==
    \A p \in Procs : trade_date_cache[p].fetches <= 1

NonCritical(r) == r.severity # "Critical"

\* C17: a call whose calendar fetch fails returns without raising, returns
\* the price-inconsistency and one-sided issues it returns with a calendar,
\* in the same order, and no Critical issue.
C17_CalendarUnavailable ==
    (/\ probe.fn = "cross_validate_symbol"
     /\ probe.fault = "none"
     /\ ~probe.cache.loaded /\ ~probe.fetch_ok) =>
        /\ ~probe.raised
        /\ probe.out = SelectSeq(cross_validate_symbol(1, probe.cache, TRUE, "none").issues,
                                 NonCritical)
        /\ \A j \in 1..Len(probe.out) :
              probe.out[j].severity # "Critical"
                  /\ probe.out[j].issue \in {"price_inconsistency", "one_sided_missing"}

\* A call without a calendar that returns issues, on data for which a call
\* with the calendar reports a two-sided gap.
C17_Witness ==
    /\ probe.fn = "cross_validate_symbol"
    /\ probe.fault = "none"
    /\ ~probe.cache.loaded /\ ~probe.fetch_ok
    /\ ~probe.raised
    /\ probe.out # <<>>
    /\ TwoSidedGap(2)
    /\ IssuesOn(2) = {}

----------------------------------------------------------------------------
(* Claims about the scan window, checked under SpecScan *)

\* the stored bar dates of the pair the last scan of s was for
ScannedSeries(s) == DOMAIN bars[scans[s].source][s]

\* check_from_date of the last scan of s
CheckFrom(s) ==
    IF scans[s].full \/ scans[s].before = NoDate
    THEN SetMin(scans[s].loaded)
    ELSE scans[s].before

\* the issues of kind and severity the last scan of s found for date d
FoundOn(s, d, kind, sev) ==
    {j \in 1..Len(scans[s].found) :
        /\ scans[s].found[j].trade_date = d
        /\ scans[s].found[j].issue = kind
        /\ scans[s].found[j].severity = sev}

\* C11: a scan that evaluated the rules finds, for every calendar date d
\* within [min, max] of the bar series with d >= check_from_date and no bar
\* on d, exactly one missing-trading-day issue, Warning if d is a suspension
\* date of the instrument and Error otherwise.
C11_CalendarContinuity ==
    \A s \in Symbols :
        (scans[s].ran /\ scans[s].pushed # NoDate) =>
            \A d \in market_calendar :
                (/\ SetMin(ScannedSeries(s)) <= d /\ d <= SetMax(ScannedSeries(s))
                 /\ d >= CheckFrom(s)
                 /\ d \notin ScannedSeries(s)) =>
                    Cardinality(FoundOn(s, d, "missing_trading_day",
                                        IF d \in suspensions[s] THEN "Warning"
                                        ELSE "Error")) = 1

\* an incremental scan from a stored watermark whose bar query returned
IncrementalLoad(s) ==
    /\ scans[s].ran /\ ~scans[s].full
    /\ scans[s].before # NoDate
    /\ (~scans[s].raised \/ scans[s].pushed # NoDate)

\* C19: an incremental scan from watermark W loads exactly the bars dated
\* >= W and the latest bar before W (when there is one), and finds no issue
\* dated before W.
C19_WindowExtension ==
    \A s \in Symbols :
        IncrementalLoad(s) =>
            LET W == scans[s].before
                older == {d \in ScannedSeries(s) : d < W}
                seed == IF older = {} THEN {} ELSE {SetMax(older)}
            IN /\ scans[s].loaded = {d \in ScannedSeries(s) : d >= W} \cup seed
               /\ \A j \in 1..Len(scans[s].found) : scans[s].found[j].trade_date >= W

\* C20: an incremental scan that ends without an error, from watermark W
\* with bars stored after W, has loaded those bars and leaves the watermark
\* at the latest bar date.
C20_IncrementalProgress ==
    \A s \in Symbols :
        (/\ scans[s].ran /\ ~scans[s].full /\ ~scans[s].raised
         /\ scans[s].before # NoDate
         /\ \E d \in ScannedSeries(s) : d > scans[s].before) =>
            /\ {d \in ScannedSeries(s) : d > scans[s].before} \subseteq scans[s].loaded
            /\ Watermark(s) = SetMax(ScannedSeries(s))

----------------------------------------------------------------------------
(* Claims about the factor synthesizer, checked under SpecFactors *)

FactorsCalled == probe.fn = "fetch_factors"

\* the forward and the backward factor returned for skeleton date d
ForwardAt(d) ==
    LET i == CHOOSE j \in 1..Len(probe.forward) : probe.forward[j].trade_date = d
    IN probe.forward[i].forward_factor
BackAt(d) ==
    LET i == CHOOSE j \in 1..Len(probe.back) : probe.back[j].trade_date = d
    IN probe.back[i].back_factor

\* two events, the earlier with forward ratio 2.0 and the later with 1.5,
\* both on skeleton dates
TwoEvents(e1, e2) ==
    /\ DOMAIN probe.events = {e1, e2} /\ e1 < e2
    /\ {e1, e2} \subseteq probe.days
    /\ probe.events[e1].foreAdjustFactor = <<2, 1>>
    /\ probe.events[e2].foreAdjustFactor = <<3, 2>>

\* C15 as stated: with forward ratios 2.0 and 1.5 the forward factor is 3.0
\* before both events, 1.5 between them and 1.0 after both.
C15_RoundTripOriginal ==
    FactorsCalled =>
        \A e1, e2 \in FactorDates :
            TwoEvents(e1, e2) =>
                \A d \in probe.days :
                    /\ d < e1 => ForwardAt(d) = <<3, 1>>
                    /\ (e1 < d /\ d < e2) => ForwardAt(d) = <<3, 2>>
                    /\ d > e2 => ForwardAt(d) = <<1, 1>>

\* C15 as amended: with forward ratios 2.0 and 1.5 the forward factor is
\* 1/(2.0 x 1.5) = 1/3 before both events, 1/1.5 = 2/3 between them and 1.0
\* after both.
C15_RoundTrip ==
    FactorsCalled =>
        \A e1, e2 \in FactorDates :
            TwoEvents(e1, e2) =>
                \A d \in probe.days :
                    /\ d < e1 => ForwardAt(d) = <<1, 3>>
                    /\ (e1 < d /\ d < e2) => ForwardAt(d) = <<2, 3>>
                    /\ d > e2 => ForwardAt(d) = <<1, 1>>

\* A call with the two events and skeleton dates before, between and after.
C15_Witness ==
    /\ FactorsCalled
    /\ \E e1, e2 \in FactorDates :
          /\ TwoEvents(e1, e2)
          /\ \E a, b, c \in probe.days :
                /\ a < e1 /\ e1 < b /\ b < e2 /\ e2 < c
                /\ ForwardAt(a) = <<1, 3>>
                /\ ForwardAt(b) = <<2, 3>>
                /\ ForwardAt(c) = <<1, 1>>

\* the product of term[e] over the event dates e in S
RECURSIVE RatProduct(_, _)
RatProduct(S, term) ==
    IF S = {} THEN RatOne
    ELSE LET e == CHOOSE x \in S : TRUE
         IN RatMul(term[e], RatProduct(S \ {e}, term))

\* C18: with the events on skeleton dates, the forward factor at skeleton
\* date d is the product of 1/fore_ratio over the event dates >= d, the
\* backward factor the product of back_ratio over the event dates <= d, each
\* skeleton date is in each returned series exactly once, and with no event
\* both series are 1.0 throughout.
C18_SynthesizerReference ==
    (FactorsCalled /\ DOMAIN probe.events \subseteq probe.days) =>
        LET fore == [e \in DOMAIN probe.events |->
                        RatInv(probe.events[e].foreAdjustFactor)]
            back == [e \in DOMAIN probe.events |->
                        probe.events[e].backAdjustFactor]
        IN /\ Len(probe.forward) = Cardinality(probe.days)
           /\ Len(probe.back) = Cardinality(probe.days)
           /\ \A d \in probe.days :
                 /\ Cardinality({j \in 1..Len(probe.forward) :
                                    probe.forward[j].trade_date = d}) = 1
                 /\ Cardinality({j \in 1..Len(probe.back) :
                                    probe.back[j].trade_date = d}) = 1
                 /\ ForwardAt(d) =
                       RatProduct({e \in DOMAIN probe.events : e >= d}, fore)
                 /\ BackAt(d) =
                       RatProduct({e \in DOMAIN probe.events : e <= d}, back)
                 /\ DOMAIN probe.events = {} =>
                       ForwardAt(d) = RatOne /\ BackAt(d) = RatOne

\* A call with three events on skeleton dates and a skeleton date between
\* them whose forward and backward factors are both other than 1.0.
C18_Witness ==
    /\ FactorsCalled
    /\ DOMAIN probe.events \subseteq probe.days
    /\ Cardinality(DOMAIN probe.events) = 3
    /\ \E d \in probe.days \ DOMAIN probe.events :
          /\ \E e \in DOMAIN probe.events : e < d
          /\ \E e \in DOMAIN probe.events : e > d
          /\ ForwardAt(d) # RatOne /\ BackAt(d) # RatOne

----------------------------------------------------------------------------
(* Claims about the check after a factor update, checked under SpecDense *)

\* find_data_issues has run on a factor table holding one row for every
\* trading date of the instrument
DenseChecked ==
    /\ probe.fn = "find_data_issues"
    /\ factors["baostock"][1] = DOMAIN bars["baostock"][1]

\* row i of the checked frame is a move above 30% against row i-1
SpikeAt(i) ==
    /\ i > 1
    /\ JumpOver30(probe.daily_df[i-1].close, probe.daily_df[i].close)

\* C21: with a factor row on every trading date, a move above 30% on a date
\* in the reporting window is reported once, with severity Error when no
\* event occurred on that date and with severity Warning only when one did.
C21_DenseSpikeSeverity ==
    DenseChecked =>
        \A i \in 1..Len(probe.daily_df) :
            LET d == probe.daily_df[i].trade_date
                event == d \in DOMAIN probe.events
            IN (InWindow(i) /\ SpikeAt(i)) =>
                  /\ CountOut(d, "price_jump", "Warning") = (IF event THEN 1 ELSE 0)
                  /\ CountOut(d, "price_jump", "Error") = (IF event THEN 0 ELSE 1)

====
